---- MODULE Spec2Model ----
(***************************************************************************)
(* Token-Curated Registry state machine of                                 *)
(* src/c1_state_machine/p6_open_ended.rs: the state Tcr, the transitions   *)
(* SubmitProposal, VoteFor, VoteAgainst and Resolve, and the reducer       *)
(* Tcr::next_state with its helpers adjust_balance and top_up_balance.     *)
(***************************************************************************)
EXTENDS Integers, Sequences, FiniteSets, TLC

VARIABLES
    balances,   \* Tcr.balances : HashMap<User, Tokens>
    proposals,  \* Tcr.proposals: HashMap<Proposal, ProposalState>
    registry,   \* Tcr.registry : Vec<Proposal>
    init,       \* the state the last call of next_state was given
    t,          \* the transition the last call of next_state was given
    panicked,   \* TRUE when the last call of next_state panicked
    overflowed, \* TRUE when the last call overflowed a Tokens addition
    calls_left  \* number of transitions the caller has yet to feed

vars == <<balances, proposals, registry, init, t, panicked, overflowed, calls_left>>

----------------------------------------------------------------------------
(* Bounds of the model *)

\* Tokens is u32; the model keeps the arithmetic but narrows the width.
TokensBits == 9
\* The caller of Spec feeds at most MaxCalls transitions to next_state.
MaxCalls == 4

----------------------------------------------------------------------------
(* Data model *)

RECURSIVE Pow2(_)
Pow2(n) == IF n = 0 THEN 1 ELSE 2 * Pow2(n - 1)

TokensMax == Pow2(TokensBits) - 1
Tokens == 0..TokensMax

User == {"Alice", "Bob", "Charlie"}

ProposalVariants == <<"Prop1", "Prop2", "Prop3", "Prop4">>
Proposal == {ProposalVariants[i] : i \in 1..Len(ProposalVariants)}

\* A HashMap is a function whose domain is its key set.
EmptyMap == [k \in {} |-> 0]
Insert(m, k, v) == [x \in (DOMAIN m) \cup {k} |-> IF x = k THEN v ELSE m[x]]
Remove(m, k) == [x \in (DOMAIN m) \ {k} |-> m[x]]
Contains(seq, x) == \E i \in 1..Len(seq) : seq[i] = x

ProposalState(for, against) == [votes_for |-> for, votes_against |-> against]
Tcr(b, p, r) == [balances |-> b, proposals |-> p, registry |-> r]

initial_state ==
    Tcr([u \in User |-> 100], EmptyMap, <<>>)

----------------------------------------------------------------------------
(* u32 arithmetic *)

Min(a, b) == IF a < b THEN a ELSE b
Max(a, b) == IF a > b THEN a ELSE b
saturating_sub(a, b) == Max(a - b, 0)
saturating_add(a, b) == Min(a + b, TokensMax)
\* `a + b` on u32: wraps when overflow checks are off.
wrapping_add(a, b) == (a + b) % (TokensMax + 1)

RECURSIVE MathSum(_)
MathSum(m) ==
    IF DOMAIN m = {} THEN 0
    ELSE LET k == CHOOSE x \in DOMAIN m : TRUE
         IN m[k] + MathSum(Remove(m, k))

----------------------------------------------------------------------------
(* Helpers of Tcr *)

\* Variant: Ok(()) without storing the new balance.
adjust_balance_not_stored(state, user, stake) ==
    IF user \in DOMAIN state.balances /\ state.balances[user] >= stake
    THEN [ok |-> TRUE, state |-> state]
    ELSE [ok |-> FALSE, state |-> state]

\* Result<(), &str> with the mutated state: ok = TRUE is Ok(()).
adjust_balance(state, user, stake) ==
    IF user \in DOMAIN state.balances /\ state.balances[user] >= stake
    THEN [ok |-> TRUE,
          state |-> [state EXCEPT !.balances =
                        Insert(@, user, saturating_sub(state.balances[user], stake))]]
    ELSE [ok |-> FALSE, state |-> state]

top_up_balance(state, user, stake) ==
    IF user \in DOMAIN state.balances
    THEN [ok |-> TRUE,
          state |-> [state EXCEPT !.balances =
                        Insert(@, user, saturating_add(state.balances[user], stake))]]
    ELSE [ok |-> FALSE, state |-> state]

----------------------------------------------------------------------------
(* Tcr::next_state, one operator per match arm.  Each returns the state   *)
(* next_state returns and whether the call panicked instead of returning. *)

Returned(state) == [state |-> state, panicked |-> FALSE, overflowed |-> FALSE]
Panicked(state) == [state |-> state, panicked |-> TRUE, overflowed |-> FALSE]
\* The call evaluated a `+` or a `.sum()` whose result does not fit Tokens.
Overflowed(r) == [r EXCEPT !.overflowed = TRUE]

\* Variant: the registry is not consulted.
submit_proposal_unregistered_only(init_, prop, user, stake) ==
    IF prop \in DOMAIN init_.proposals
    THEN Returned(init_)
    ELSE LET debit == adjust_balance(init_, user, stake)
         IN IF ~debit.ok
            THEN Returned(debit.state)
            ELSE Returned([debit.state EXCEPT !.proposals =
                     Insert(@, prop, ProposalState(Insert(EmptyMap, user, stake), EmptyMap))])

\* Variant: the pending proposals are not consulted.
submit_proposal_registry_only(init_, prop, user, stake) ==
    IF Contains(init_.registry, prop)
    THEN Returned(init_)
    ELSE LET debit == adjust_balance(init_, user, stake)
         IN IF ~debit.ok
            THEN Returned(debit.state)
            ELSE Returned([debit.state EXCEPT !.proposals =
                     Insert(@, prop, ProposalState(Insert(EmptyMap, user, stake), EmptyMap))])

\* Variant: the submitter's stake is recorded in votes_against.
submit_proposal_votes_against(init_, prop, user, stake) ==
    IF prop \in DOMAIN init_.proposals \/ Contains(init_.registry, prop)
    THEN Returned(init_)
    ELSE LET debit == adjust_balance(init_, user, stake)
         IN IF ~debit.ok
            THEN Returned(debit.state)
            ELSE Returned([debit.state EXCEPT !.proposals =
                     Insert(@, prop, ProposalState(EmptyMap, Insert(EmptyMap, user, stake)))])

submit_proposal(init_, prop, user, stake) ==
    IF prop \in DOMAIN init_.proposals \/ Contains(init_.registry, prop)
    THEN Returned(init_)
    ELSE LET debit == adjust_balance(init_, user, stake)
         IN IF ~debit.ok
            THEN Returned(debit.state)
            ELSE Returned([debit.state EXCEPT !.proposals =
                     Insert(@, prop, ProposalState(Insert(EmptyMap, user, stake), EmptyMap))])

\* Variant: only the own side is searched for an earlier vote.
vote_for_own_side_only(init_, prop, user, stake) ==
    IF prop \notin DOMAIN init_.proposals \/ Contains(init_.registry, prop)
    THEN Returned(init_)
    ELSE LET proposal == init_.proposals[prop]
             balance == IF user \in DOMAIN init_.balances THEN init_.balances[user] ELSE 0
         IN IF \/ user \in DOMAIN proposal.votes_for
               \/ stake > balance
            THEN Returned(init_)
            ELSE LET voted == [init_ EXCEPT !.proposals[prop].votes_for =
                                   Insert(@, user, stake)]
                 IN Returned(adjust_balance(voted, user, stake).state)

\* Variant: the new entry replaces the votes_for map.
vote_for_replaces_votes(init_, prop, user, stake) ==
    IF prop \notin DOMAIN init_.proposals \/ Contains(init_.registry, prop)
    THEN Returned(init_)
    ELSE LET proposal == init_.proposals[prop]
             balance == IF user \in DOMAIN init_.balances THEN init_.balances[user] ELSE 0
         IN IF \/ user \in DOMAIN proposal.votes_for
               \/ user \in DOMAIN proposal.votes_against
               \/ stake > balance
            THEN Returned(init_)
            ELSE LET voted == [init_ EXCEPT !.proposals[prop].votes_for =
                                   Insert(EmptyMap, user, stake)]
                 IN Returned(adjust_balance(voted, user, stake).state)

vote_for(init_, prop, user, stake) ==
    IF prop \notin DOMAIN init_.proposals \/ Contains(init_.registry, prop)
    THEN Returned(init_)
    ELSE LET proposal == init_.proposals[prop]
             balance == IF user \in DOMAIN init_.balances THEN init_.balances[user] ELSE 0
         IN IF \/ user \in DOMAIN proposal.votes_for
               \/ user \in DOMAIN proposal.votes_against
               \/ stake > balance
            THEN Returned(init_)
            ELSE LET voted == [init_ EXCEPT !.proposals[prop].votes_for =
                                   Insert(@, user, stake)]
                 IN Returned(adjust_balance(voted, user, stake).state)

\* Variant: only the own side is searched for an earlier vote.
vote_against_own_side_only(init_, prop, user, stake) ==
    IF prop \notin DOMAIN init_.proposals \/ Contains(init_.registry, prop)
    THEN Returned(init_)
    ELSE LET proposal == init_.proposals[prop]
             balance == IF user \in DOMAIN init_.balances THEN init_.balances[user] ELSE 0
         IN IF \/ user \in DOMAIN proposal.votes_against
               \/ stake > balance
            THEN Returned(init_)
            ELSE LET voted == [init_ EXCEPT !.proposals[prop].votes_against =
                                   Insert(@, user, stake)]
                 IN Returned(adjust_balance(voted, user, stake).state)

\* Variant: the new entry replaces the votes_against map.
vote_against_replaces_votes(init_, prop, user, stake) ==
    IF prop \notin DOMAIN init_.proposals \/ Contains(init_.registry, prop)
    THEN Returned(init_)
    ELSE LET proposal == init_.proposals[prop]
             balance == IF user \in DOMAIN init_.balances THEN init_.balances[user] ELSE 0
         IN IF \/ user \in DOMAIN proposal.votes_for
               \/ user \in DOMAIN proposal.votes_against
               \/ stake > balance
            THEN Returned(init_)
            ELSE LET voted == [init_ EXCEPT !.proposals[prop].votes_against =
                                   Insert(EmptyMap, user, stake)]
                 IN Returned(adjust_balance(voted, user, stake).state)

vote_against(init_, prop, user, stake) ==
    IF prop \notin DOMAIN init_.proposals \/ Contains(init_.registry, prop)
    THEN Returned(init_)
    ELSE LET proposal == init_.proposals[prop]
             balance == IF user \in DOMAIN init_.balances THEN init_.balances[user] ELSE 0
         IN IF \/ user \in DOMAIN proposal.votes_for
               \/ user \in DOMAIN proposal.votes_against
               \/ stake > balance
            THEN Returned(init_)
            ELSE LET voted == [init_ EXCEPT !.proposals[prop].votes_against =
                                   Insert(@, user, stake)]
                 IN Returned(adjust_balance(voted, user, stake).state)

\* users.extend(other): the entries of other replace those of users.
Extend(users, other) ==
    [u \in (DOMAIN users) \cup (DOMAIN other) |->
        IF u \in DOMAIN other THEN other[u] ELSE users[u]]

\* `for (user, stake) in users { top_up_balance(state, user, top_up + stake) }`;
\* `top_up + stake` overflowing u32 panics under overflow checks, else wraps.
RECURSIVE pay_out(_, _, _, _)
pay_out(state, users, top_up, overflow_checks) ==
    IF DOMAIN users = {} THEN Returned(state)
    ELSE LET user == CHOOSE u \in DOMAIN users : TRUE
             stake == users[user]
             rest == pay_out(top_up_balance(state, user, wrapping_add(top_up, stake)).state,
                             Remove(users, user), top_up, overflow_checks)
         IN IF top_up + stake > TokensMax
            THEN IF overflow_checks THEN Overflowed(Panicked(state))
                 ELSE Overflowed(rest)
            ELSE rest

\* Variant: the registry holds only the proposal admitted last.
admit_replaces_registry(state, prop) == [state EXCEPT !.registry = <<prop>>]

\* Variant: every pending proposal is removed.
discard_all(state, prop) == [state EXCEPT !.proposals = EmptyMap]

\* new_state.proposals.remove(prop) and new_state.registry.push(prop)
discard(state, prop) == [state EXCEPT !.proposals = Remove(@, prop)]
admit(state, prop) == [state EXCEPT !.registry = Append(@, prop)]

\* Variant: only the votes_for voters are paid.
resolve_tie_for_only(init_, prop, overflow_checks) ==
    LET users == init_.proposals[prop].votes_for
        paid == pay_out(init_, users, 0, overflow_checks)
    IN [paid EXCEPT !.state = discard(@, prop)]

\* Variant: a tie admits the proposal.
resolve_tie_admits(init_, prop, overflow_checks) ==
    LET users == Extend(init_.proposals[prop].votes_for,
                        init_.proposals[prop].votes_against)
        paid == pay_out(init_, users, 0, overflow_checks)
    IN [paid EXCEPT !.state = discard(admit(@, prop), prop)]

\* Variant: the pending entry is kept after the refund.
resolve_tie_keeps_pending(init_, prop, overflow_checks) ==
    LET users == Extend(init_.proposals[prop].votes_for,
                        init_.proposals[prop].votes_against)
    IN pay_out(init_, users, 0, overflow_checks)

\* total_against == total_for: every voter is paid the recorded stake.
resolve_tie(init_, prop, overflow_checks) ==
    LET users == Extend(init_.proposals[prop].votes_for,
                        init_.proposals[prop].votes_against)
        paid == pay_out(init_, users, 0, overflow_checks)
    IN [paid EXCEPT !.state = discard(@, prop)]

\* Variant: the proposal is not pushed to the registry.
resolve_for_wins_not_admitted(init_, prop, total_against, overflow_checks) ==
    LET users == init_.proposals[prop].votes_for
    IN IF Cardinality(DOMAIN users) = 0 THEN Panicked(init_)
       ELSE LET top_up == total_against \div Cardinality(DOMAIN users)
                paid == pay_out(init_, users, top_up, overflow_checks)
            IN [paid EXCEPT !.state = discard(@, prop)]

\* Variant: the pending entry is kept.
resolve_for_wins_keeps_pending(init_, prop, total_against, overflow_checks) ==
    LET users == init_.proposals[prop].votes_for
    IN IF Cardinality(DOMAIN users) = 0 THEN Panicked(init_)
       ELSE LET top_up == total_against \div Cardinality(DOMAIN users)
                paid == pay_out(init_, users, top_up, overflow_checks)
            IN [paid EXCEPT !.state = admit(@, prop)]

\* total_for > total_against; `saturating_div` by zero voters panics.
resolve_for_wins(init_, prop, total_against, overflow_checks) ==
    LET users == init_.proposals[prop].votes_for
    IN IF Cardinality(DOMAIN users) = 0 THEN Panicked(init_)
       ELSE LET top_up == total_against \div Cardinality(DOMAIN users)
                paid == pay_out(init_, users, top_up, overflow_checks)
            IN [paid EXCEPT !.state = discard(admit(@, prop), prop)]

\* Variant: every winner is paid the whole losing pool.
resolve_against_wins_whole_pool(init_, prop, total_for, overflow_checks) ==
    LET users == init_.proposals[prop].votes_against
    IN IF Cardinality(DOMAIN users) = 0 THEN Panicked(init_)
       ELSE LET paid == pay_out(init_, users, total_for, overflow_checks)
            IN [paid EXCEPT !.state = discard(@, prop)]

\* total_for < total_against
resolve_against_wins(init_, prop, total_for, overflow_checks) ==
    LET users == init_.proposals[prop].votes_against
    IN IF Cardinality(DOMAIN users) = 0 THEN Panicked(init_)
       ELSE LET top_up == total_for \div Cardinality(DOMAIN users)
                paid == pay_out(init_, users, top_up, overflow_checks)
            IN [paid EXCEPT !.state = discard(@, prop)]

\* Variant: the registry is not consulted.
resolve_any_pending(init_, prop, overflow_checks) ==
    IF prop \notin DOMAIN init_.proposals
    THEN Returned(init_)
    ELSE LET sum_for == MathSum(init_.proposals[prop].votes_for)
             sum_against == MathSum(init_.proposals[prop].votes_against)
             total_for == sum_for % (TokensMax + 1)
             total_against == sum_against % (TokensMax + 1)
             outcome ==
                 IF total_against = total_for
                 THEN resolve_tie(init_, prop, overflow_checks)
                 ELSE IF total_for > total_against
                 THEN resolve_for_wins(init_, prop, total_against, overflow_checks)
                 ELSE resolve_against_wins(init_, prop, total_for, overflow_checks)
         IN IF sum_for > TokensMax \/ sum_against > TokensMax
            THEN IF overflow_checks THEN Overflowed(Panicked(init_))
                 ELSE Overflowed(outcome)
            ELSE outcome

\* `.values().sum()` into u32 panics on overflow under overflow checks and
\* wraps without them.
resolve(init_, prop, overflow_checks) ==
    IF prop \notin DOMAIN init_.proposals \/ Contains(init_.registry, prop)
    THEN Returned(init_)
    ELSE LET sum_for == MathSum(init_.proposals[prop].votes_for)
             sum_against == MathSum(init_.proposals[prop].votes_against)
             total_for == sum_for % (TokensMax + 1)
             total_against == sum_against % (TokensMax + 1)
             outcome ==
                 IF total_against = total_for
                 THEN resolve_tie(init_, prop, overflow_checks)
                 ELSE IF total_for > total_against
                 THEN resolve_for_wins(init_, prop, total_against, overflow_checks)
                 ELSE resolve_against_wins(init_, prop, total_for, overflow_checks)
         IN IF sum_for > TokensMax \/ sum_against > TokensMax
            THEN IF overflow_checks THEN Overflowed(Panicked(init_))
                 ELSE Overflowed(outcome)
            ELSE outcome

\* A call that panics returns nothing: the caller keeps the state it had.
next_state(init_, t_, overflow_checks) ==
    LET r == CASE t_.type = "SubmitProposal" ->
                      submit_proposal(init_, t_.prop, t_.user, t_.stake)
               [] t_.type = "VoteFor" -> vote_for(init_, t_.prop, t_.user, t_.stake)
               [] t_.type = "VoteAgainst" ->
                      vote_against(init_, t_.prop, t_.user, t_.stake)
               [] t_.type = "Resolve" -> resolve(init_, t_.prop, overflow_checks)
    IN IF r.panicked THEN [r EXCEPT !.state = init_] ELSE r

----------------------------------------------------------------------------
(* Transitions *)

SubmitProposalT(prop, user, stake) ==
    [type |-> "SubmitProposal", prop |-> prop, user |-> user, stake |-> stake]
VoteForT(prop, user, stake) ==
    [type |-> "VoteFor", prop |-> prop, user |-> user, stake |-> stake]
VoteAgainstT(prop, user, stake) ==
    [type |-> "VoteAgainst", prop |-> prop, user |-> user, stake |-> stake]
ResolveT(prop) ==
    [type |-> "Resolve", prop |-> prop]
\* No call of next_state has been made yet.
NoTransition == [type |-> "None"]

\* The proposals and the stakes the caller draws its transitions from.
PropsInPlay == {"Prop1", "Prop2"}
Stakes == {0, 75}

----------------------------------------------------------------------------
(* The state machine: a caller folds next_state over transitions. *)

current == Tcr(balances, proposals, registry)

\* The caller may call while it has transitions left and no call panicked
\* (a panic unwinds the caller).
CanCall == ~panicked /\ calls_left > 0

SubmitProposal ==
    \E prop \in PropsInPlay, user \in User, stake \in Stakes :
        LET tr == SubmitProposalT(prop, user, stake)
            r == next_state(current, tr, TRUE)
        IN /\ CanCall
           /\ calls_left' = calls_left - 1
           /\ init' = current
           /\ t' = tr
           /\ balances' = r.state.balances
           /\ proposals' = r.state.proposals
           /\ registry' = r.state.registry
           /\ panicked' = r.panicked
           /\ overflowed' = r.overflowed

VoteFor ==
    \E prop \in PropsInPlay, user \in User, stake \in Stakes :
        LET tr == VoteForT(prop, user, stake)
            r == next_state(current, tr, TRUE)
        IN /\ CanCall
           /\ calls_left' = calls_left - 1
           /\ init' = current
           /\ t' = tr
           /\ balances' = r.state.balances
           /\ proposals' = r.state.proposals
           /\ registry' = r.state.registry
           /\ panicked' = r.panicked
           /\ overflowed' = r.overflowed

VoteAgainst ==
    \E prop \in PropsInPlay, user \in User, stake \in Stakes :
        LET tr == VoteAgainstT(prop, user, stake)
            r == next_state(current, tr, TRUE)
        IN /\ CanCall
           /\ calls_left' = calls_left - 1
           /\ init' = current
           /\ t' = tr
           /\ balances' = r.state.balances
           /\ proposals' = r.state.proposals
           /\ registry' = r.state.registry
           /\ panicked' = r.panicked
           /\ overflowed' = r.overflowed

\* The sums and `top_up + stake` of the Resolve arm panic on overflow in a
\* build with overflow checks and wrap in one without: either may run.
Resolve ==
    \E prop \in PropsInPlay, overflow_checks \in BOOLEAN :
        LET tr == ResolveT(prop)
            r == next_state(current, tr, overflow_checks)
        IN /\ CanCall
           /\ calls_left' = calls_left - 1
           /\ init' = current
           /\ t' = tr
           /\ balances' = r.state.balances
           /\ proposals' = r.state.proposals
           /\ registry' = r.state.registry
           /\ panicked' = r.panicked
           /\ overflowed' = r.overflowed

Init ==
    /\ balances = initial_state.balances
    /\ proposals = initial_state.proposals
    /\ registry = initial_state.registry
    /\ init = initial_state
    /\ t = NoTransition
    /\ panicked = FALSE
    /\ overflowed = FALSE
    /\ calls_left = MaxCalls

Next == SubmitProposal \/ VoteFor \/ VoteAgainst \/ Resolve

Spec == Init /\ [][Next]_vars

----------------------------------------------------------------------------
(* One call of next_state on any value of type Tcr.  The fields of Tcr are *)
(* plain maps and a vector, so a caller (the tests do) can build states no *)
(* sequence of transitions produces: a voter without a balances entry, a   *)
(* proposal both pending and registered, a user on both sides, a pending   *)
(* proposal without votes, amounts up to the largest Tokens value.         *)

Maps(keys, values) == UNION {[d -> values] : d \in SUBSET keys}

AnyBalances ==
    {Extend(Extend(a, b), c) :
        a \in Maps({"Alice"}, {25, TokensMax}),
        b \in [{"Bob"} -> {25, TokensMax}],
        c \in Maps({"Charlie"}, {25})}

AnyVotes == Maps({"Alice", "Bob"}, {0, 25, TokensMax})

AnyProposals ==
    LET first == {EmptyMap} \cup
                 {Insert(EmptyMap, "Prop1", ProposalState(for, against)) :
                     for \in AnyVotes, against \in AnyVotes}
        second == {EmptyMap,
                   Insert(EmptyMap, "Prop2",
                          ProposalState(Insert(EmptyMap, "Charlie", 25), EmptyMap))}
    IN {Extend(p1, p2) : p1 \in first, p2 \in second}

AnyRegistry == {<<>>, <<"Prop1">>}

InitAny ==
    /\ balances \in AnyBalances
    /\ proposals \in AnyProposals
    /\ registry \in AnyRegistry
    /\ init = current
    /\ t = NoTransition
    /\ panicked = FALSE
    /\ overflowed = FALSE
    /\ calls_left = 1

SpecAny == InitAny /\ [][Next]_vars

----------------------------------------------------------------------------
(* Vocabulary of the properties.  `init` and `t` are the arguments of the  *)
(* last call and `current` is what it returned.                            *)

Pending(state, prop) == prop \in DOMAIN state.proposals
Registered(state, prop) == Contains(state.registry, prop)
HasBalance(state, user) == user \in DOMAIN state.balances
BalanceOf(state, user) == IF HasBalance(state, user) THEN state.balances[user] ELSE 0
VotesFor(state, prop) == state.proposals[prop].votes_for
VotesAgainst(state, prop) == state.proposals[prop].votes_against
Staked(state, prop) == MathSum(VotesFor(state, prop)) + MathSum(VotesAgainst(state, prop))

RECURSIVE SumOver(_, _)
SumOver(state, props) ==
    IF props = {} THEN 0
    ELSE LET p == CHOOSE x \in props : TRUE
         IN Staked(state, p) + SumOver(state, props \ {p})

\* sum(balances) + sum of all stakes of all pending proposals
TotalTokens(state) == MathSum(state.balances) + SumOver(state, DOMAIN state.proposals)

IsVote == t.type \in {"VoteFor", "VoteAgainst"}
Unchanged == current = init /\ ~panicked

----------------------------------------------------------------------------
(* C1: a SubmitProposal whose proposal is already pending or already       *)
(* registered, or whose user has no balances entry or a balance below the  *)
(* stake, returns a state equal to the one it was given.                   *)
C1_SubmitRejectionIsNoOp ==
    (/\ t.type = "SubmitProposal"
     /\ \/ Pending(init, t.prop)
        \/ Registered(init, t.prop)
        \/ ~HasBalance(init, t.user)
        \/ init.balances[t.user] < t.stake)
    => Unchanged

\* A user without a balances entry submitted a fresh proposal and was refused.
C1_Witness ==
    /\ t.type = "SubmitProposal"
    /\ ~Pending(init, t.prop) /\ ~Registered(init, t.prop)
    /\ ~HasBalance(init, t.user)
    /\ Unchanged

(* C2: a VoteFor or VoteAgainst on a proposal that is not pending or is    *)
(* registered, by a user who already has an entry on either side, or with  *)
(* a stake above the user's balance, returns a state equal to the one it   *)
(* was given: no vote entry recorded, no balance changed.                  *)
C2_VoteRejectionIsNoOp ==
    (/\ IsVote
     /\ \/ ~Pending(init, t.prop)
        \/ Registered(init, t.prop)
        \/ t.user \in DOMAIN VotesFor(init, t.prop)
        \/ t.user \in DOMAIN VotesAgainst(init, t.prop)
        \/ t.stake > BalanceOf(init, t.user))
    => Unchanged

\* A user with an entry in votes_against and enough balance tried VoteFor on
\* a pending, unregistered proposal and was refused.
C2_Witness ==
    /\ t.type = "VoteFor"
    /\ Pending(init, t.prop) /\ ~Registered(init, t.prop)
    /\ t.user \in DOMAIN VotesAgainst(init, t.prop)
    /\ t.user \notin DOMAIN VotesFor(init, t.prop)
    /\ t.stake > 0 /\ t.stake <= BalanceOf(init, t.user)
    /\ Unchanged

(* C3: a Resolve of a proposal that is not pending, or that is registered  *)
(* (also when it is pending with votes at the same time), returns a state  *)
(* equal to the one it was given.                                          *)
C3_ResolveRejectionIsNoOp ==
    (/\ t.type = "Resolve"
     /\ ~Pending(init, t.prop) \/ Registered(init, t.prop))
    => Unchanged

\* Resolve of a proposal both registered and pending with recorded stakes.
C3_Witness ==
    /\ t.type = "Resolve"
    /\ Pending(init, t.prop) /\ Registered(init, t.prop)
    /\ Staked(init, t.prop) > 0
    /\ Unchanged

(* C4: in every state reachable from the initial state no Proposal is both *)
(* a key of proposals and a member of registry.                            *)
C4_PendingAndRegistryDisjoint ==
    \A p \in Proposal : ~(Pending(current, p) /\ Registered(current, p))

\* With one proposal registered and another pending, the registered one was
\* submitted again.
C4_Witness ==
    /\ t.type = "SubmitProposal"
    /\ Registered(init, t.prop)
    /\ DOMAIN proposals # {}
    /\ Len(registry) > 0

(* C5: in every reachable state no user is on both sides of a pending      *)
(* proposal; an entry once recorded stays on its side with its stake while *)
(* the proposal is pending; a user with an entry (the submitter included)  *)
(* cannot vote again on either side.                                       *)
C5_OneVotePerUser ==
    /\ \A p \in DOMAIN proposals :
           (DOMAIN VotesFor(current, p)) \cap (DOMAIN VotesAgainst(current, p)) = {}
    /\ \A p \in (DOMAIN init.proposals) \cap (DOMAIN proposals) :
           /\ \A u \in DOMAIN VotesFor(init, p) :
                  /\ u \in DOMAIN VotesFor(current, p)
                  /\ VotesFor(current, p)[u] = VotesFor(init, p)[u]
           /\ \A u \in DOMAIN VotesAgainst(init, p) :
                  /\ u \in DOMAIN VotesAgainst(current, p)
                  /\ VotesAgainst(current, p)[u] = VotesAgainst(init, p)[u]
    /\ (/\ IsVote
        /\ Pending(init, t.prop)
        /\ t.user \in (DOMAIN VotesFor(init, t.prop)) \cup (DOMAIN VotesAgainst(init, t.prop)))
       => Unchanged

\* The only for-voter of a proposal (its submitter) tried to vote against it
\* with a stake the balance covers.
C5_Witness ==
    /\ t.type = "VoteAgainst"
    /\ Pending(init, t.prop)
    /\ DOMAIN VotesFor(init, t.prop) = {t.user}
    /\ t.stake > 0 /\ t.stake <= BalanceOf(init, t.user)
    /\ Unchanged

(* C6: for every state and every SubmitProposal, VoteFor or VoteAgainst,   *)
(* accepted or not, sum(balances) plus all pending stakes is the same      *)
(* after the call as before.                                               *)
C6_StakingConservesTokens ==
    t.type \in {"SubmitProposal", "VoteFor", "VoteAgainst"}
    => /\ ~panicked
       /\ TotalTokens(current) = TotalTokens(init)

\* An accepted vote moved a positive stake.
C6_Witness ==
    /\ t.type = "VoteAgainst"
    /\ t.stake > 0
    /\ Pending(current, t.prop)
    /\ t.user \in DOMAIN VotesAgainst(current, t.prop)
    /\ t.user \notin DOMAIN VotesAgainst(init, t.prop)
    /\ BalanceOf(current, t.user) = BalanceOf(init, t.user) - t.stake

\* The part of the losing pool that the integer division leaves over.
Remainder(state, prop) ==
    LET for == MathSum(VotesFor(state, prop))
        against == MathSum(VotesAgainst(state, prop))
    IN IF for = against THEN 0
       ELSE IF for > against
            THEN against % Cardinality(DOMAIN VotesFor(state, prop))
            ELSE for % Cardinality(DOMAIN VotesAgainst(state, prop))

(* C7: in every reachable state a Resolve that is not rejected lowers      *)
(* sum(balances) plus all pending stakes by exactly the losing pool modulo *)
(* the number of winning voters (by nothing on a tie or an exact           *)
(* division), and the total never exceeds that of the initial state.       *)
C7_ResolveLosesOnlyRemainder ==
    /\ (t.type = "Resolve" /\ Pending(init, t.prop) /\ ~Registered(init, t.prop))
       => /\ ~panicked
          /\ TotalTokens(current) = TotalTokens(init) - Remainder(init, t.prop)
    /\ TotalTokens(current) <= TotalTokens(initial_state)

\* A Resolve dropped a remainder.
C7_Witness ==
    /\ t.type = "Resolve"
    /\ Pending(init, t.prop)
    /\ Remainder(init, t.prop) > 0
    /\ TotalTokens(current) < TotalTokens(init)

\* What the balance of user grew by in the last call.
Credit(user) == BalanceOf(current, user) - BalanceOf(init, user)

(* C8: for every state where prop is pending, not registered and           *)
(* total_for > total_against, Resolve credits each votes_for voter with    *)
(* the own stake plus floor(total_against / number of votes_for voters),   *)
(* credits nothing to the votes_against voters, appends prop to registry   *)
(* and removes it from proposals.                                          *)
C8_ForWinsPaysStakePlusShare ==
    (/\ t.type = "Resolve"
     /\ Pending(init, t.prop) /\ ~Registered(init, t.prop)
     /\ MathSum(VotesFor(init, t.prop)) > MathSum(VotesAgainst(init, t.prop)))
    => /\ ~panicked
       /\ \A u \in DOMAIN VotesFor(init, t.prop) :
              Credit(u) = VotesFor(init, t.prop)[u]
                          + MathSum(VotesAgainst(init, t.prop))
                            \div Cardinality(DOMAIN VotesFor(init, t.prop))
       /\ \A u \in (DOMAIN VotesAgainst(init, t.prop)) \ (DOMAIN VotesFor(init, t.prop)) :
              Credit(u) = 0
       /\ registry = Append(init.registry, t.prop)
       /\ proposals = Remove(init.proposals, t.prop)

(* C9: for every state where prop is pending, not registered and           *)
(* total_for < total_against, Resolve credits each votes_against voter     *)
(* with the own stake plus floor(total_for / number of votes_against       *)
(* voters), credits nothing to the votes_for voters, removes prop from     *)
(* proposals and leaves registry as it was; a tie does not add prop to     *)
(* registry either.                                                        *)
C9_AgainstWinsPaysStakePlusShare ==
    /\ (/\ t.type = "Resolve"
        /\ Pending(init, t.prop) /\ ~Registered(init, t.prop)
        /\ MathSum(VotesFor(init, t.prop)) < MathSum(VotesAgainst(init, t.prop)))
       => /\ ~panicked
          /\ \A u \in DOMAIN VotesAgainst(init, t.prop) :
                 Credit(u) = VotesAgainst(init, t.prop)[u]
                             + MathSum(VotesFor(init, t.prop))
                               \div Cardinality(DOMAIN VotesAgainst(init, t.prop))
          /\ \A u \in (DOMAIN VotesFor(init, t.prop)) \ (DOMAIN VotesAgainst(init, t.prop)) :
                 Credit(u) = 0
          /\ registry = init.registry
          /\ proposals = Remove(init.proposals, t.prop)
    /\ (/\ t.type = "Resolve"
        /\ Pending(init, t.prop) /\ ~Registered(init, t.prop)
        /\ MathSum(VotesFor(init, t.prop)) = MathSum(VotesAgainst(init, t.prop)))
       => registry = init.registry

\* The stake user has recorded on prop, on either side.
RecordedStake(state, prop, user) ==
    IF user \in DOMAIN VotesFor(state, prop) THEN VotesFor(state, prop)[user]
    ELSE IF user \in DOMAIN VotesAgainst(state, prop) THEN VotesAgainst(state, prop)[user]
    ELSE 0

(* C10: in every reachable state where prop is pending with                *)
(* total_for = total_against, Resolve raises the balance of every voter of *)
(* either side by the recorded stake, changes no other balance, removes    *)
(* prop from proposals and leaves registry as it was.                      *)
C10_TieRefundsEveryVoter ==
    (/\ t.type = "Resolve"
     /\ Pending(init, t.prop) /\ ~Registered(init, t.prop)
     /\ MathSum(VotesFor(init, t.prop)) = MathSum(VotesAgainst(init, t.prop)))
    => /\ ~panicked
       /\ DOMAIN balances = DOMAIN init.balances
       /\ \A u \in User : Credit(u) = RecordedStake(init, t.prop, u)
       /\ proposals = Remove(init.proposals, t.prop)
       /\ registry = init.registry

\* A tie of two for-voters against one against-voter with stakes at risk.
C10_Witness ==
    /\ t.type = "Resolve"
    /\ Pending(init, t.prop)
    /\ Cardinality(DOMAIN VotesFor(init, t.prop)) = 2
    /\ Cardinality(DOMAIN VotesAgainst(init, t.prop)) = 1
    /\ MathSum(VotesFor(init, t.prop)) > 0
    /\ MathSum(VotesFor(init, t.prop)) = MathSum(VotesAgainst(init, t.prop))
    /\ ~Pending(current, t.prop)

(* C11: for every state where prop is neither pending nor registered and   *)
(* user has a balance of at least stake, SubmitProposal lowers the balance *)
(* of user by exactly stake, sets proposals[prop] to votes_for             *)
(* {user: stake} with empty votes_against, and leaves every other balance, *)
(* every other pending proposal and the registry as they were.             *)
C11_SubmitSuccessEffect ==
    (/\ t.type = "SubmitProposal"
     /\ ~Pending(init, t.prop) /\ ~Registered(init, t.prop)
     /\ HasBalance(init, t.user)
     /\ init.balances[t.user] >= t.stake)
    => /\ ~panicked
       /\ balances = Insert(init.balances, t.user, init.balances[t.user] - t.stake)
       /\ proposals = Insert(init.proposals, t.prop,
                             ProposalState(Insert(EmptyMap, t.user, t.stake), EmptyMap))
       /\ registry = init.registry

\* A positive stake was submitted while another proposal was pending.
C11_Witness ==
    /\ t.type = "SubmitProposal"
    /\ t.stake > 0
    /\ DOMAIN init.proposals # {}
    /\ ~Pending(init, t.prop) /\ Pending(current, t.prop)
    /\ BalanceOf(current, t.user) = BalanceOf(init, t.user) - t.stake

\* The vote map a VoteFor or VoteAgainst writes to, after the write.
Voted(state) ==
    IF t.type = "VoteFor"
    THEN [state EXCEPT !.proposals[t.prop].votes_for = Insert(@, t.user, t.stake)]
    ELSE [state EXCEPT !.proposals[t.prop].votes_against = Insert(@, t.user, t.stake)]

(* C12: for every state where prop is pending and not registered, user has *)
(* no entry on either side of prop and stake is at most user's balance, a  *)
(* VoteFor (VoteAgainst) adds {user: stake} to votes_for (votes_against)   *)
(* of prop and to no other map, lowers the balance of user by exactly      *)
(* stake, and leaves the existing vote entries, the other balances, the    *)
(* other proposals and the registry as they were.                          *)
C12_VoteSuccessEffect ==
    (/\ IsVote
     /\ Pending(init, t.prop) /\ ~Registered(init, t.prop)
     /\ t.user \notin DOMAIN VotesFor(init, t.prop)
     /\ t.user \notin DOMAIN VotesAgainst(init, t.prop)
     /\ t.stake <= BalanceOf(init, t.user))
    => /\ ~panicked
       /\ proposals = Voted(init).proposals
       /\ balances = IF HasBalance(init, t.user)
                     THEN Insert(init.balances, t.user, init.balances[t.user] - t.stake)
                     ELSE init.balances
       /\ registry = init.registry

\* A positive stake was voted for a proposal that had votes on both sides.
C12_Witness ==
    /\ t.type = "VoteFor"
    /\ t.stake > 0
    /\ Pending(init, t.prop)
    /\ DOMAIN VotesFor(init, t.prop) # {}
    /\ DOMAIN VotesAgainst(init, t.prop) # {}
    /\ t.user \notin DOMAIN VotesFor(init, t.prop)
    /\ t.user \in DOMAIN VotesFor(current, t.prop)
    /\ BalanceOf(current, t.user) = BalanceOf(init, t.user) - t.stake

(* C13: in every state reachable from the initial state, Resolve of a      *)
(* proposal that is a key of proposals is not rejected and returns a state *)
(* where the proposal is no longer a key of proposals, whether the outcome *)
(* is a tie, for wins or against wins.                                     *)
C13_ResolveClearsPending ==
    (t.type = "Resolve" /\ Pending(init, t.prop))
    => /\ ~panicked
       /\ current # init
       /\ ~Pending(current, t.prop)

\* A proposal with no token staked on either side was resolved.
C13_Witness ==
    /\ t.type = "Resolve"
    /\ Pending(init, t.prop)
    /\ Staked(init, t.prop) = 0
    /\ DOMAIN VotesAgainst(init, t.prop) # {}
    /\ ~Pending(current, t.prop)

(* C14: along every sequence of transitions a Proposal that is a member of *)
(* registry stays a member after every later call and is not a key of      *)
(* proposals again, and SubmitProposal, VoteFor, VoteAgainst and Resolve   *)
(* on it return the state they were given.                                 *)
C14_RegistryPermanence ==
    /\ \A p \in Proposal :
           Registered(init, p) => (Registered(current, p) /\ ~Pending(current, p))
    /\ (t # NoTransition /\ Registered(init, t.prop)) => Unchanged

\* With one proposal registered and another pending, a user whose balance
\* covers the stake voted for the registered one.
C14_Witness ==
    /\ t.type = "VoteFor"
    /\ Registered(init, t.prop)
    /\ DOMAIN init.proposals # {}
    /\ t.stake > 0 /\ t.stake <= BalanceOf(init, t.user)
    /\ Registered(current, t.prop)
    /\ Unchanged

(* C15: for every state s and every SubmitProposal, VoteFor or VoteAgainst *)
(* t, next_state(next_state(s, t), t) = next_state(s, t): the same         *)
(* transition applied to the state it produced is rejected, so no user     *)
(* stakes twice on a proposal by replaying a transition.                   *)
C15_ReplayIsRejected ==
    t.type \in {"SubmitProposal", "VoteFor", "VoteAgainst"}
    => /\ ~panicked
       /\ next_state(current, t, TRUE) = Returned(current)

\* An accepted submission left its user a balance that covers the stake a
\* second time.
C15_Witness ==
    /\ t.type = "SubmitProposal"
    /\ t.stake > 0
    /\ ~Pending(init, t.prop) /\ Pending(current, t.prop)
    /\ BalanceOf(current, t.user) >= t.stake
    /\ next_state(current, t, TRUE).state = current

(* C16: for every state with Tokens values anywhere in the unsigned range, *)
(* every arithmetic step of next_state clamps: the sums total_for and      *)
(* total_against, the payout share + stake, the balance credits and the    *)
(* balance debits neither wrap around nor make the call fail, and every    *)
(* balance stays within the Tokens range.                                  *)
C16_ArithmeticSaturates ==
    /\ ~overflowed
    /\ \A u \in DOMAIN balances : balances[u] \in Tokens

(* C17: for every state, reachable or not, also one whose pending proposal *)
(* has empty votes_for or empty votes_against, Resolve completes and       *)
(* returns a state: the share is never divided by a voter count of zero    *)
(* and the call does not fail.                                             *)
C17_ResolveAlwaysReturns ==
    t.type = "Resolve" => ~panicked

\* Resolve of a pending proposal nobody voted against.
OnlyForVotes ==
    /\ t.type = "Resolve"
    /\ Pending(init, t.prop) /\ ~Registered(init, t.prop)
    /\ DOMAIN VotesAgainst(init, t.prop) = {}

\* prop was admitted and every for-voter got the own stake back, no more.
AdmittedAtStake ==
    /\ ~panicked
    /\ registry = Append(init.registry, t.prop)
    /\ proposals = Remove(init.proposals, t.prop)
    /\ \A u \in User :
           Credit(u) = IF u \in DOMAIN VotesFor(init, t.prop)
                       THEN VotesFor(init, t.prop)[u] ELSE 0

(* C18, as stated: Resolve of a proposal that has only for-votes adds it   *)
(* to registry, removes it from proposals and returns to each for-voter    *)
(* exactly the own stake, for every stake the submitter could submit with. *)
C18_OnlyForVotesAdmits ==
    OnlyForVotes => AdmittedAtStake

(* C18, amended: Resolve of a proposal that has only for-votes admits it   *)
(* as above when at least one for-stake is positive; when every for-stake  *)
(* is 0 the totals tie and Resolve removes the proposal from proposals     *)
(* without adding it to registry.                                          *)
C18_OnlyPositiveForVotesAdmit ==
    OnlyForVotes
    => IF MathSum(VotesFor(init, t.prop)) > 0
       THEN AdmittedAtStake
       ELSE /\ ~panicked
            /\ registry = init.registry
            /\ proposals = Remove(init.proposals, t.prop)
            /\ balances = init.balances

\* Two for-voters, one of them with stake 0, and nobody against.
C18_Witness ==
    /\ OnlyForVotes
    /\ Cardinality(DOMAIN VotesFor(init, t.prop)) = 2
    /\ \E u \in DOMAIN VotesFor(init, t.prop) : VotesFor(init, t.prop)[u] = 0
    /\ MathSum(VotesFor(init, t.prop)) > 0
    /\ Registered(current, t.prop)

\* The last call was a vote that passed the checks and recorded its entry.
VoteRecorded ==
    /\ IsVote
    /\ Pending(init, t.prop)
    /\ t.user \notin (DOMAIN VotesFor(init, t.prop)) \cup (DOMAIN VotesAgainst(init, t.prop))
    /\ proposals = Voted(init).proposals

(* C19: for every state and every VoteFor or VoteAgainst that passes the   *)
(* checks and records the vote, the adjust_balance that follows returns    *)
(* Ok: no vote entry is recorded for a user whose balance the helper did   *)
(* not debit, voters without a balances entry included.                    *)
C19_DebitAfterVoteSucceeds ==
    VoteRecorded
    => /\ adjust_balance(Voted(init), t.user, t.stake).ok
       /\ HasBalance(current, t.user)
       /\ balances = adjust_balance(Voted(init), t.user, t.stake).state.balances

\* What Resolve of prop owes user by the vote records of state: the stake
\* on a tie, the stake plus the share of the losing pool to a winner.
Owed(state, prop, user) ==
    LET for == VotesFor(state, prop)
        against == VotesAgainst(state, prop)
    IN IF MathSum(for) = MathSum(against) THEN RecordedStake(state, prop, user)
       ELSE IF MathSum(for) > MathSum(against)
       THEN IF user \in DOMAIN for
            THEN for[user] + MathSum(against) \div Cardinality(DOMAIN for)
            ELSE 0
       ELSE IF user \in DOMAIN against
            THEN against[user] + MathSum(for) \div Cardinality(DOMAIN against)
            ELSE 0

(* C20: in every reachable state a Resolve that is not rejected credits    *)
(* each voter it pays exactly once, with the amount the vote records of    *)
(* prop before the call give; it changes the balance of no user outside    *)
(* the winning side (on a tie, of no user who is not a voter of prop),     *)
(* leaves the set of users with a balances entry as it was and leaves the  *)
(* votes_for and votes_against of every other pending proposal unchanged.  *)
C20_ResolveFrame ==
    (t.type = "Resolve" /\ Pending(init, t.prop))
    => /\ ~panicked
       /\ DOMAIN balances = DOMAIN init.balances
       /\ \A u \in User : Credit(u) = Owed(init, t.prop, u)
       /\ DOMAIN proposals = (DOMAIN init.proposals) \ {t.prop}
       /\ \A p \in DOMAIN proposals : proposals[p] = init.proposals[p]

\* A Resolve paid a voter while another proposal with a stake was pending.
C20_Witness ==
    /\ t.type = "Resolve"
    /\ Pending(init, t.prop)
    /\ \E p \in DOMAIN proposals : Staked(current, p) > 0
    /\ \E u \in User : Credit(u) > 0
    /\ \E u \in User : Credit(u) = 0 /\ RecordedStake(init, t.prop, u) = 0

\* Every entry of map `old` is in map `new` with the same stake.
Keeps(old, new) ==
    \A u \in DOMAIN old : u \in DOMAIN new /\ new[u] = old[u]

(* C21: in every state reachable from the initial state every pending      *)
(* proposal has a non-empty votes_for; an accepted SubmitProposal puts the *)
(* submitter's entry with the submitted stake there, and no transition     *)
(* other than Resolve removes or alters a vote entry or a pending          *)
(* proposal, so the submitter's entry is there as long as the proposal is  *)
(* pending.                                                                *)
C21_PendingHasForVoter ==
    /\ \A p \in DOMAIN proposals : DOMAIN VotesFor(current, p) # {}
    /\ (t.type = "SubmitProposal" /\ ~Pending(init, t.prop) /\ Pending(current, t.prop))
       => /\ t.user \in DOMAIN VotesFor(current, t.prop)
          /\ VotesFor(current, t.prop)[t.user] = t.stake
    /\ \A p \in DOMAIN init.proposals :
           (t.type = "Resolve" /\ t.prop = p)
           \/ /\ Pending(current, p)
              /\ Keeps(VotesFor(init, p), VotesFor(current, p))
              /\ Keeps(VotesAgainst(init, p), VotesAgainst(current, p))

\* A second vote against a proposal was accepted and the proposal still has
\* its submitter's entry and the first vote against.
C21_Witness ==
    /\ t.type = "VoteAgainst"
    /\ Pending(init, t.prop)
    /\ Cardinality(DOMAIN VotesFor(init, t.prop)) = 1
    /\ Cardinality(DOMAIN VotesAgainst(init, t.prop)) = 1
    /\ Cardinality(DOMAIN VotesAgainst(current, t.prop)) = 2
    /\ Keeps(VotesFor(init, t.prop), VotesFor(current, t.prop))

(* C22: in every state reachable from the initial state each Proposal      *)
(* occurs at most once in registry, and the only call that changes         *)
(* registry is a Resolve of a proposal that was pending with               *)
(* total_for > total_against, which appends exactly that proposal at the   *)
(* end.                                                                    *)
C22_RegistryGrowsByAdmission ==
    /\ \A i, j \in 1..Len(registry) : registry[i] = registry[j] => i = j
    /\ registry # init.registry
       => /\ t.type = "Resolve"
          /\ Pending(init, t.prop)
          /\ MathSum(VotesFor(init, t.prop)) > MathSum(VotesAgainst(init, t.prop))
          /\ registry = Append(init.registry, t.prop)

\* A second proposal was admitted after another.
C22_Witness ==
    /\ t.type = "Resolve"
    /\ Len(init.registry) = 1
    /\ Len(registry) = 2
    /\ registry[1] # registry[2]

====
